---- MODULE Spec2Model ----
(***************************************************************************)
(* Outreach orchestration and compliance engine of SolarCommand:           *)
(* the compliance gate, the channel escalation policy, the enqueue         *)
(* operation, the queue drain under its Redis lock, single-attempt         *)
(* execution, and the SMS and voice tasks that write the lead counters.    *)
(*                                                                         *)
(* The database is modelled at READ COMMITTED: a session reads committed   *)
(* rows when its statement runs, keeps them in its identity map, and its   *)
(* writes become visible to others when it commits.  An ORM attribute      *)
(* write (lead.status = x, lead.total_sms_sent += 1) is sent as            *)
(* UPDATE .. SET col = <value held in memory>; the core statement          *)
(* update(Lead).values(c = Lead.c + 1) is an increment of the committed    *)
(* value.                                                                  *)
(***************************************************************************)
EXTENDS Integers, Sequences, FiniteSets, TLC

\* ---------------------------------------------------------------- bounds
NumLeads == 1
NumWorkers == 2
MaxAttempts == 2
MaxConsent == 2
\* counters drawn for the checks of the pure channel policy
MaxCallsIn == 4
MaxSmsIn == 4
MaxEmailsIn == 6
\* rows of the attempts table in the escalation scenario
MaxEscalation == 4
\* NBADecision rows explored, and the clock of the NBA checks: hours per
\* step and the last hour reached
MaxDecisions == 2
ClockStep == 12
MaxClock == 36

\* ------------------------------------------------------ program constants
MAX_CALL_ATTEMPTS == 3
MAX_SMS_ATTEMPTS == 3
MAX_EMAIL_ATTEMPTS == 5
call_start_hour == 9
call_end_hour == 20
sms_start_hour == 9
sms_end_hour == 21
DrainLimit == 10
\* max_retries of process_outreach_queue and execute_outreach
max_retries == 3
\* timedelta(hours=24) and timedelta(days=30), in hours; the nightly batch's
\* cutoff in hours and its limit(100)
DecisionTtl == 24
TerminalTtl == 720
BatchCutoff == 24
BatchLimit == 100

None == "none"

LeadStatus ==
  {"ingested", "scored", "hot", "warm", "cool", "contacting", "contacted",
   "qualified", "appointment_set", "nurturing", "closed_won", "closed_lost",
   "disqualified", "dnc", "archived"}

ContactChannel == {"voice", "sms", "email"}

ConsentStatus == {"opted_in", "opted_out", "pending", "revoked"}

\* the six outcomes the voice stub draws from
VoiceDispositions ==
  {"appointment_booked", "interested_not_ready", "not_interested",
   "no_answer", "voicemail", "wrong_number"}

blocked_statuses == {"dnc", "disqualified", "closed_won", "closed_lost", "archived"}

protected_statuses == {"appointment_set", "qualified", "closed_won"}

Leads == 1..NumLeads
Workers == 1..NumWorkers

\* ------------------------------------------------------------------ time
\* An instant is the UTC weekday (0 = Monday .. 6 = Sunday) and UTC hour.
Instants == [wd : 0..6, hr : 0..23]

\* instants the clock of the full system visits: Tuesday 10:00 ET (calls and
\* SMS open), Tuesday 20:00 ET (calls closed, SMS open), Sunday 10:00 ET.
SampleInstants ==
  { [wd |-> 1, hr |-> 15], [wd |-> 2, hr |-> 1], [wd |-> 6, hr |-> 15] }

et_hour(t) == (t.hr - 5) % 24

is_within_call_window(t) ==
  IF t.wd = 6 THEN FALSE
  ELSE IF t.wd = 5 THEN 10 <= et_hour(t) /\ et_hour(t) < 17
  ELSE call_start_hour <= et_hour(t) /\ et_hour(t) < call_end_hour

is_within_sms_window(t) ==
  IF t.wd = 6 THEN FALSE
  ELSE sms_start_hour <= et_hour(t) /\ et_hour(t) < sms_end_hour

is_within_quiet_hours(t) ==
  IF t.wd = 6 THEN FALSE
  ELSE IF t.wd = 5 THEN 10 <= et_hour(t) /\ et_hour(t) < 17
  ELSE sms_start_hour <= et_hour(t) /\ et_hour(t) < sms_end_hour

\* ----------------------------------------------------------------- state
VARIABLES
  leads,      \* committed Lead rows: status, counters, next_outreach_channel
  consent,    \* committed ConsentLog rows of each lead, oldest first
  attempts,   \* committed OutreachAttempt rows, by id
  lock,       \* Redis key lock:process_outreach_queue: {} or {its holder}
  wk,         \* each worker's running task: position, session, pending writes
  now,        \* the clock
  lastOp,     \* what the last call returned, when it returned without writing
              \* (and for enqueue_outreach and the NBA operations always);
              \* Quiet after any other step
  nba,        \* committed NBADecision rows, by id
  ai,         \* the reasoning provider's configuration and the words of the
              \* stored organizational memory
  clock,      \* hours elapsed on the clock since the start
  audit       \* committed AuditLog rows of the outreach pipeline, those
              \* with entity_type outreach_attempt and the consent.opt_out
              \* rows: the number of rows for each <<action, entity_id>>

vars ==
  <<leads, consent, attempts, lock, wk, now, lastOp, nba, ai, clock, audit>>

\* the state of the next-best-action subsystem
nbaVars == <<nba, ai, clock>>

\* no NBADecision row, a provider that is not configured, an empty memory
NbaUnused ==
  /\ nba = <<>>
  /\ ai = [anthropic_api_key |-> FALSE, openai_api_key |-> FALSE,
           memory |-> {}]
  /\ clock = 0

\* ------------------------------------------------------- compliance gate
\* check_dnc looking at the newest consent record only
check_dnc_newest_only(recs) == Len(recs) > 0 /\ recs[Len(recs)] = "opted_out"

\* select(ConsentLog).where(status == opted_out).limit(1) is not None
check_dnc(recs) == \E i \in 1..Len(recs) : recs[i] = "opted_out"

AllExhausted(ld) ==
  /\ ld.total_call_attempts >= MAX_CALL_ATTEMPTS
  /\ ld.total_sms_sent >= MAX_SMS_ATTEMPTS
  /\ ld.total_emails_sent >= MAX_EMAIL_ATTEMPTS

can_contact(ld, recs) ==
  IF check_dnc(recs)
    THEN [allowed |-> FALSE, reason |-> "opted_out"]
  ELSE IF ld.status \in blocked_statuses
    THEN [allowed |-> FALSE, reason |-> "status"]
  ELSE IF AllExhausted(ld)
    THEN [allowed |-> FALSE, reason |-> "exhausted"]
  ELSE [allowed |-> TRUE, reason |-> "OK"]

\* ------------------------------------------------------ channel escalation
\* select_channel with the email tier held to the SMS window
select_channel_email_window(ld, t) ==
  IF ld.total_call_attempts < MAX_CALL_ATTEMPTS
    THEN IF is_within_call_window(t) THEN "voice"
         ELSE IF ld.total_sms_sent < MAX_SMS_ATTEMPTS /\ is_within_sms_window(t)
           THEN "sms"
         ELSE None
  ELSE IF ld.total_sms_sent < MAX_SMS_ATTEMPTS
    THEN IF is_within_sms_window(t) THEN "sms" ELSE None
  ELSE IF ld.total_emails_sent < MAX_EMAIL_ATTEMPTS /\ is_within_sms_window(t)
    THEN "email"
  ELSE None

\* select_channel with the call cap compared by <=
select_channel_call_cap_late(ld, t) ==
  IF ld.total_call_attempts <= MAX_CALL_ATTEMPTS
    THEN IF is_within_call_window(t) THEN "voice"
         ELSE IF ld.total_sms_sent < MAX_SMS_ATTEMPTS /\ is_within_sms_window(t)
           THEN "sms"
         ELSE None
  ELSE IF ld.total_sms_sent < MAX_SMS_ATTEMPTS
    THEN IF is_within_sms_window(t) THEN "sms" ELSE None
  ELSE IF ld.total_emails_sent < MAX_EMAIL_ATTEMPTS
    THEN "email"
  ELSE None

select_channel(ld, t) ==
  IF ld.total_call_attempts < MAX_CALL_ATTEMPTS
    THEN IF is_within_call_window(t) THEN "voice"
         ELSE IF ld.total_sms_sent < MAX_SMS_ATTEMPTS /\ is_within_sms_window(t)
           THEN "sms"
         ELSE None
  ELSE IF ld.total_sms_sent < MAX_SMS_ATTEMPTS
    THEN IF is_within_sms_window(t) THEN "sms" ELSE None
  ELSE IF ld.total_emails_sent < MAX_EMAIL_ATTEMPTS
    THEN "email"
  ELSE None

\* ------------------------------------------------------------ row shapes
NewLead(st) ==
  [status |-> st, total_call_attempts |-> 0, total_sms_sent |-> 0,
   total_emails_sent |-> 0, next_outreach_channel |-> None]

\* writes and incs count, for each attempt, the committed writes of its
\* disposition and the committed counter increments made on its behalf.
NewAttempt(l, ch, n) ==
  [lead |-> l, channel |-> ch, disposition |-> None, writes |-> 0, incs |-> n]

\* A worker's task: its position, the rows left to handle (batch), the row
\* _simulate_outreach is working on (att: {} between rows, else {id}), the
\* dispositions it has written and not yet committed (disp, by attempt id),
\* the Lead objects of its session (orig: status as loaded, cur: status now
\* held in memory; None while not loaded), and for the SMS and voice tasks
\* the lead and the counter value they read; retries is self.request.retries
\* of the execute_outreach task it runs.
NoSession == [l \in Leads |-> None]

IdleWorker ==
  [pc |-> "idle", batch |-> {}, att |-> {}, disp |-> <<>>,
   orig |-> NoSession, cur |-> NoSession, lead |-> 0, cnt |-> 0,
   retries |-> 0]

Op(name, x, res) == [op |-> name, arg |-> x, res |-> res]

Quiet == Op("step", 0, None)

AttemptIds == 1..Len(attempts)

Pending == {a \in AttemptIds : attempts[a].disposition = None}

\* Row locks.  A session that has run an UPDATE on a row holds the row's lock
\* until it commits or rolls back; another session's UPDATE of that row waits.
\* Worker w's session has updated attempt a, and the Lead row of a's lead,
\* when a is in DOMAIN wk[w].disp.
LeadRowFree(l, w) ==
  \A v \in Workers \ {w} : \A a \in DOMAIN wk[v].disp : attempts[a].lead # l

AttemptRowFree(a, w) ==
  \A v \in Workers \ {w} : a \notin DOMAIN wk[v].disp

\* ------------------------------------------------------------ API requests
\* Each request runs in one session that get_db commits when the handler
\* returns; it is one step, taken when the rows it updates are free.
NotAWorker == NumWorkers + 1

\* enqueue_outreach marking the lead as being contacted before the gate runs
EnqueueOutreach_status_first(l) ==
  LET ld == leads[l]
      gate == can_contact(ld, consent[l])
      channel == select_channel(ld, now)
  IN /\ LeadRowFree(l, NotAWorker)
     /\ IF ~gate.allowed \/ channel = None
          THEN /\ lastOp' = Op("enqueue", l, None)
               /\ leads' = [leads EXCEPT ![l].status = "contacting"]
               /\ UNCHANGED attempts
          ELSE /\ Len(attempts) < MaxAttempts
               /\ attempts' = Append(attempts, NewAttempt(l, channel, 0))
               /\ leads' = [leads EXCEPT ![l].status = "contacting",
                                         ![l].next_outreach_channel = channel]
               /\ lastOp' = Op("enqueue", l, channel)

\* enqueue_outreach without the status update of line 134
EnqueueOutreach_no_status(l) ==
  LET ld == leads[l]
      gate == can_contact(ld, consent[l])
      channel == select_channel(ld, now)
  IN IF ~gate.allowed \/ channel = None
       THEN /\ lastOp' = Op("enqueue", l, None)
            /\ UNCHANGED <<leads, attempts>>
       ELSE /\ Len(attempts) < MaxAttempts
            /\ LeadRowFree(l, NotAWorker)
            /\ attempts' = Append(attempts, NewAttempt(l, channel, 0))
            /\ leads' = [leads EXCEPT ![l].next_outreach_channel = channel]
            /\ lastOp' = Op("enqueue", l, channel)

\* orchestrator.enqueue_outreach(db, l), called by POST /outreach/{l}/enqueue;
\* res is the channel of the attempt it returns, or None; the attempts table
\* is explored up to cap rows
EnqueueOutreachUpTo(l, cap) ==
  LET ld == leads[l]
      gate == can_contact(ld, consent[l])
      channel == select_channel(ld, now)
  IN IF ~gate.allowed \/ channel = None
       THEN /\ lastOp' = Op("enqueue", l, None)
            /\ UNCHANGED <<leads, attempts>>
       ELSE /\ Len(attempts) < cap
            /\ LeadRowFree(l, NotAWorker)
            /\ attempts' = Append(attempts, NewAttempt(l, channel, 0))
            /\ leads' = [leads EXCEPT ![l].status = "contacting",
                                      ![l].next_outreach_channel = channel]
            /\ lastOp' = Op("enqueue", l, channel)

EnqueueOutreach(l) == EnqueueOutreachUpTo(l, MaxAttempts)

\* au with one more row for action on entity id
Audited(au, action, id) ==
  LET k == <<action, id>>
  IN IF k \in DOMAIN au THEN [au EXCEPT ![k] = @ + 1] ELSE (k :> 1) @@ au

\* enqueue_outreach_endpoint, lines 44-60: when an attempt was returned, the
\* AuditLog row outreach.enqueued for it
EnqueuedAudit ==
  IF lastOp'.res = None THEN audit
  ELSE Audited(audit, "outreach.enqueued", Len(attempts'))

\* POST /outreach/{lead_id}/enqueue
Enqueue ==
  /\ \E l \in Leads : EnqueueOutreach(l)
  /\ audit' = EnqueuedAudit
  /\ UNCHANGED <<consent, lock, wk, now, nbaVars>>

\* POST /appointments
CreateAppointment ==
  /\ \E l \in Leads :
       /\ LeadRowFree(l, NotAWorker)
       /\ leads' = [leads EXCEPT ![l].status = "appointment_set"]
  /\ lastOp' = Quiet
  /\ UNCHANGED <<consent, attempts, lock, wk, now, nbaVars, audit>>

\* statuses a user sets by hand in the full system
StatusInputs == {"hot", "closed_won"}

\* PATCH /leads/{lead_id}/status with a status from pool
update_lead_status(pool) ==
  /\ \E l \in Leads, s \in pool :
       /\ LeadRowFree(l, NotAWorker)
       /\ leads' = [leads EXCEPT ![l].status = s]
  /\ lastOp' = Quiet
  /\ UNCHANGED <<consent, attempts, lock, wk, now, nbaVars, audit>>

UpdateLeadStatus == update_lead_status(StatusInputs)

UpdateLeadStatusAny == update_lead_status(LeadStatus)

\* POST /leads/{lead_id}/consent: one ConsentLog row is added to the lead's log
AddConsent ==
  /\ \E l \in Leads, s \in ConsentStatus :
       /\ Len(consent[l]) < MaxConsent
       /\ consent' = [consent EXCEPT ![l] = Append(@, s)]
  /\ lastOp' = Quiet
  /\ UNCHANGED <<leads, attempts, lock, wk, now, nbaVars, audit>>

\* ------------------------------------------------------------ inbound SMS
\* A message body is the set of its words.
OPT_OUT_KEYWORDS ==
  {"stop", "unsubscribe", "cancel", "end", "quit", "opt out", "optout",
   "opt-out", "remove me", "do not contact", "don't contact",
   "leave me alone"}

\* _OPT_OUT_PATTERN.search(text): a keyword between word boundaries
is_opt_out_message(body) == body \cap OPT_OUT_KEYWORDS # {}

\* message bodies received
Bodies == {{"stop"}, {"please", "unsubscribe"}, {"hello"}, {"stopped"}}

\* actions the classification of a message may ask for
SmsActions == {"none", "opt_out", "book_appointment", "rep_handoff"}

SmsOp(l, res, http) ==
  [op |-> "inbound_sms", arg |-> l, res |-> res, http |-> http]

\* handle_opt_out_sync(db, lead, ..): the ConsentLog row, status dnc and the
\* AuditLog row consent.opt_out
handle_opt_out_sync(l) ==
  /\ Len(consent[l]) < MaxConsent
  /\ consent' = [consent EXCEPT ![l] = Append(@, "opted_out")]
  /\ leads' = [leads EXCEPT ![l].status = "dnc"]
  /\ audit' = Audited(audit, "consent.opt_out", l)

\* task_process_inbound_sms whose opt-out handling only sets status dnc
TaskProcessInboundSms_status_only(l, body, act) ==
  /\ LeadRowFree(l, NotAWorker)
  /\ IF is_opt_out_message(body)
       THEN /\ leads' = [leads EXCEPT ![l].status = "dnc"]
            /\ audit' = Audited(audit, "consent.opt_out", l)
            /\ lastOp' = SmsOp(l, "opt_out", 0)
            /\ UNCHANGED consent
       ELSE /\ lastOp' = SmsOp(l, "classified", 0)
            /\ UNCHANGED <<leads, consent, audit>>
  /\ UNCHANGED <<attempts, lock, wk, now, nbaVars>>

\* task_process_inbound_sms for a message of lead l with this body; act is
\* the action the provider's classification asks for when it is called
TaskProcessInboundSms(l, body, act) ==
  /\ LeadRowFree(l, NotAWorker)
  /\ IF is_opt_out_message(body)
       THEN /\ handle_opt_out_sync(l)
            /\ lastOp' = SmsOp(l, "opt_out", 0)
       ELSE LET enabled == ai.openai_api_key
                asked == IF enabled THEN act ELSE "none"
            IN /\ CASE asked = "opt_out" -> handle_opt_out_sync(l)
                    [] asked = "book_appointment" ->
                         /\ leads' = [leads EXCEPT ![l].status = "qualified"]
                         /\ UNCHANGED <<consent, audit>>
                    [] OTHER -> UNCHANGED <<leads, consent, audit>>
               /\ lastOp' = SmsOp(l, "classified", IF enabled THEN 1 ELSE 0)
  /\ UNCHANGED <<attempts, lock, wk, now, nbaVars>>

\* ------------------------------------------------------------ queue drain
\* process_outreach_queue: lock.acquire(blocking=False), i.e.
\* SET lock:process_outreach_queue <token> NX PX 120000
DrainAcquire(w) ==
  /\ wk[w].pc = "idle"
  /\ IF lock = {}
       THEN /\ lock' = {w}
            /\ wk' = [wk EXCEPT ![w].pc = "drain_scan"]
            /\ lastOp' = Quiet
       ELSE /\ lastOp' = Op("drain", w, "skipped")
            /\ UNCHANGED <<lock, wk>>
  /\ UNCHANGED <<leads, consent, attempts, now, nbaVars, audit>>

\* the rows SELECT .. WHERE disposition IS NULL LIMIT 10 may return
ScanResults ==
  IF Cardinality(Pending) <= DrainLimit THEN {Pending}
  ELSE {b \in SUBSET Pending : Cardinality(b) = DrainLimit}

DrainScan(w) ==
  /\ wk[w].pc = "drain_scan"
  /\ \E b \in ScanResults :
       wk' = [wk EXCEPT ![w].pc = "drain_sim", ![w].batch = b]
  /\ lastOp' = Quiet
  /\ UNCHANGED <<leads, consent, attempts, lock, now, nbaVars, audit>>

\* _simulate_outreach, line 102: lead = db.get(Lead, attempt.lead_id) for the
\* next row of the batch; a lead the session holds already is not read again
LoadLead(w) ==
  /\ wk[w].pc \in {"drain_sim", "exec_sim"}
  /\ wk[w].att = {}
  /\ \E a \in wk[w].batch :
       LET l == attempts[a].lead
       IN wk' = [wk EXCEPT
                   ![w].att = {a},
                   ![w].orig[l] = IF @ = None THEN leads[l].status ELSE @,
                   ![w].cur[l] = IF @ = None THEN leads[l].status ELSE @]
  /\ lastOp' = Quiet
  /\ UNCHANGED <<leads, consent, attempts, lock, now, nbaVars, audit>>

\* status_map.get(chosen, LeadStatus.contacting)
status_map(d) ==
  CASE d = "appointment_booked" -> "qualified"
    [] d = "interested_not_ready" -> "nurturing"
    [] d = "not_interested" -> "closed_lost"
    [] d = "no_answer" -> "contacting"
    [] d = "voicemail" -> "contacting"
    [] d = "wrong_number" -> "disqualified"
    [] OTHER -> "contacting"

\* the status mapping without the protected-status guard of line 150
MappedStatus_unguarded(st, d) == status_map(d)

\* lines 143-159: the lead's status in the session after a voice disposition
MappedStatus(st, d) ==
  IF st \notin protected_statuses THEN status_map(d) ELSE st

\* the outcomes of the voice stub explored in the concurrent system
SampledOutcomes == {"appointment_booked", "not_interested", "no_answer"}

\* _simulate_outreach, lines 108-184, on the row w is at, with the voice
\* outcome drawn from pool: the disposition is set, the counter UPDATE runs
\* (taking the row locks), the status mapping is applied in memory
SimulateOutreach(w, pool) ==
  /\ wk[w].pc \in {"drain_sim", "exec_sim"}
  /\ wk[w].att # {}
  /\ LET a == CHOOSE x \in wk[w].att : TRUE
         l == attempts[a].lead
         ch == attempts[a].channel
     IN
     /\ AttemptRowFree(a, w)
     /\ LeadRowFree(l, w)
     /\ \E d \in (IF ch = "voice" THEN pool ELSE {"completed"}) :
          wk' = [wk EXCEPT
                   ![w].batch = @ \ {a},
                   ![w].att = {},
                   ![w].disp = (a :> d) @@ @,
                   ![w].cur[l] = IF ch = "voice" THEN MappedStatus(@, d) ELSE @]
     /\ lastOp' = Quiet
     /\ UNCHANGED <<leads, consent, attempts, lock, now, nbaVars, audit>>

Simulate(w) == SimulateOutreach(w, SampledOutcomes)

SimulateAny(w) == SimulateOutreach(w, VoiceDispositions)

\* rows of the attempts table after worker w's session commits
CommittedAttempts(w) ==
  [a \in AttemptIds |->
     IF a \in DOMAIN wk[w].disp
       THEN [attempts[a] EXCEPT !.disposition = wk[w].disp[a],
                                !.writes = @ + 1, !.incs = @ + 1]
       ELSE attempts[a]]

\* number of UPDATE .. SET c = c + 1 statements w's session ran for (l, ch)
Increments(w, l, ch) ==
  Cardinality({a \in DOMAIN wk[w].disp :
                 attempts[a].lead = l /\ attempts[a].channel = ch})

\* the Lead row after w's session commits: the increments apply to the
\* committed counters; the status is written when the session changed it
CommittedLead(w, l) ==
  [leads[l] EXCEPT
     !.total_call_attempts = @ + Increments(w, l, "voice"),
     !.total_sms_sent = @ + Increments(w, l, "sms"),
     !.total_emails_sent = @ + Increments(w, l, "email"),
     !.status = IF wk[w].cur[l] # wk[w].orig[l] THEN wk[w].cur[l] ELSE @]

\* the AuditLog rows after w's session commits: _simulate_outreach added one
\* row outreach.<channel>.completed for each attempt it handled (lines 187-195)
RECURSIVE CommittedAudit(_, _)
CommittedAudit(au, done) ==
  IF done = {} THEN au
  ELSE LET a == CHOOSE x \in done : TRUE
       IN CommittedAudit(Audited(au, "outreach.completed", a), done \ {a})

\* db.commit() of process_outreach_queue (line 61) or execute_outreach (90)
Commit(w) ==
  /\ wk[w].pc \in {"drain_sim", "exec_sim"}
  /\ wk[w].batch = {}
  /\ attempts' = CommittedAttempts(w)
  /\ leads' = [l \in Leads |-> CommittedLead(w, l)]
  /\ wk' = [wk EXCEPT ![w] = IF wk[w].pc = "drain_sim"
                               THEN [IdleWorker EXCEPT !.pc = "drain_release"]
                               ELSE IdleWorker]
  /\ lastOp' = Quiet
  /\ audit' = CommittedAudit(audit, DOMAIN wk[w].disp)
  /\ UNCHANGED <<consent, lock, now, nbaVars>>

\* finally: lock.release(); LockNotOwnedError is swallowed
DrainRelease(w) ==
  /\ wk[w].pc = "drain_release"
  /\ lock' = IF lock = {w} THEN {} ELSE lock
  /\ wk' = [wk EXCEPT ![w] = IdleWorker]
  /\ lastOp' = Quiet
  /\ UNCHANGED <<leads, consent, attempts, now, nbaVars, audit>>

\* a Redis key without a timeout: the lock stays until it is released
LeaseExpire_no_timeout ==
  /\ lock # {}
  /\ lock' = lock
  /\ lastOp' = Op("lease", 0, "kept")
  /\ UNCHANGED <<leads, consent, attempts, wk, now, nbaVars, audit>>

\* the key's 120 s timeout passes while the lock is held
LeaseExpire ==
  /\ lock # {}
  /\ lock' = {}
  /\ lastOp' = Quiet
  /\ UNCHANGED <<leads, consent, attempts, wk, now, nbaVars, audit>>

\* -------------------------------------------------- single-attempt execution
\* execute_outreach without the disposition check of lines 86-87
ExecuteBegin_no_check(w, a) ==
  /\ wk[w].pc = "idle"
  /\ wk' = [wk EXCEPT ![w].pc = "exec_sim", ![w].batch = {a}]
  /\ lastOp' = Quiet
  /\ UNCHANGED <<leads, consent, attempts, lock, now, nbaVars, audit>>

\* execute_outreach(attempt_id), lines 82-87
ExecuteBegin(w, a) ==
  /\ wk[w].pc = "idle"
  /\ IF attempts[a].disposition # None
       THEN /\ lastOp' = Op("execute", a, "already_processed")
            /\ UNCHANGED wk
       ELSE /\ wk' = [wk EXCEPT ![w].pc = "exec_sim", ![w].batch = {a}]
            /\ lastOp' = Quiet
  /\ UNCHANGED <<leads, consent, attempts, lock, now, nbaVars, audit>>

\* execute_outreach, lines 91-93: db.get or db.execute in _simulate_outreach
\* raises; the session is closed without a commit and self.retry either
\* sends the task again with retries + 1 or, at max_retries, raises exc
ExecuteRaise(w) ==
  /\ wk[w].pc = "exec_sim"
  /\ wk[w].batch \cup wk[w].att # {}
  /\ LET a == CHOOSE x \in wk[w].batch \cup wk[w].att : TRUE
     IN IF wk[w].retries < max_retries
          THEN /\ wk' = [wk EXCEPT ![w] = [IdleWorker EXCEPT
                                             !.pc = "exec_retry",
                                             !.batch = {a},
                                             !.retries = wk[w].retries + 1]]
               /\ lastOp' = Quiet
          ELSE /\ wk' = [wk EXCEPT ![w] = IdleWorker]
               /\ lastOp' = Op("execute", a, "retries_exhausted")
  /\ UNCHANGED <<leads, consent, attempts, lock, now, nbaVars, audit>>

\* the retried execute_outreach(attempt_id) runs lines 82-87 again
ExecuteRetry(w) ==
  /\ wk[w].pc = "exec_retry"
  /\ LET a == CHOOSE x \in wk[w].batch : TRUE
     IN IF attempts[a].disposition # None
          THEN /\ lastOp' = Op("execute", a, "already_processed")
               /\ wk' = [wk EXCEPT ![w] = IdleWorker]
          ELSE /\ wk' = [wk EXCEPT ![w].pc = "exec_sim"]
               /\ lastOp' = Quiet
  /\ UNCHANGED <<leads, consent, attempts, lock, now, nbaVars, audit>>

\* process_outreach_queue raising after its session has committed what it
\* wrote so far
DrainRaise_after_commit(w) ==
  /\ wk[w].pc \in {"drain_scan", "drain_sim"}
  /\ attempts' = CommittedAttempts(w)
  /\ leads' = [l \in Leads |-> CommittedLead(w, l)]
  /\ lock' = lock \ {w}
  /\ wk' = [wk EXCEPT ![w] = IdleWorker]
  /\ audit' = CommittedAudit(audit, DOMAIN wk[w].disp)
  /\ lastOp' = Op("drain", w, "raised")
  /\ UNCHANGED <<consent, now, nbaVars>>

\* process_outreach_queue, lines 62-69: the scan or _simulate_outreach
\* raises; the session is closed without a commit, lock.release() runs and
\* self.retry sends the task again (it then starts like a run sent by beat)
DrainRaise(w) ==
  /\ wk[w].pc \in {"drain_scan", "drain_sim"}
  /\ lock' = lock \ {w}
  /\ wk' = [wk EXCEPT ![w] = IdleWorker]
  /\ lastOp' = Op("drain", w, "raised")
  /\ UNCHANGED <<leads, consent, attempts, now, nbaVars, audit>>

\* the worker process dies: its session is rolled back, the lock key stays
\* until the lease expires, and the broker delivers the task again later
Crash(w) ==
  /\ wk[w].pc # "idle"
  /\ wk' = [wk EXCEPT ![w] = IdleWorker]
  /\ lastOp' = Quiet
  /\ UNCHANGED <<leads, consent, attempts, lock, now, nbaVars, audit>>

\* ------------------------------------------------------ SMS and voice tasks
\* task_send_sms up to its commit: the gates, and the lead as loaded
SmsBegin(w, l) ==
  /\ wk[w].pc = "idle"
  /\ IF leads[l].status = "dnc" \/ check_dnc(consent[l])
       THEN /\ lastOp' = Op("sms", l, "blocked")
            /\ UNCHANGED wk
       ELSE /\ wk' = [wk EXCEPT ![w].pc = "sms_commit", ![w].lead = l,
                                  ![w].cnt = leads[l].total_sms_sent]
            /\ lastOp' = Quiet
  /\ UNCHANGED <<leads, consent, attempts, lock, now, nbaVars, audit>>

\* task_send_sms: lead.total_sms_sent += 1, the new attempt, db.commit()
SmsCommit(w) ==
  /\ wk[w].pc = "sms_commit"
  /\ Len(attempts) < MaxAttempts
  /\ LeadRowFree(wk[w].lead, w)
  /\ leads' = [leads EXCEPT ![wk[w].lead].total_sms_sent = wk[w].cnt + 1]
  /\ attempts' = Append(attempts, NewAttempt(wk[w].lead, "sms", 1))
  /\ wk' = [wk EXCEPT ![w] = IdleWorker]
  /\ lastOp' = Quiet
  /\ UNCHANGED <<consent, lock, now, nbaVars, audit>>

check_can_message(ld, recs, t) ==
  IF ld.status = "dnc" THEN FALSE
  ELSE IF check_dnc(recs) THEN FALSE
  ELSE IF ~is_within_quiet_hours(t) THEN FALSE
  ELSE IF ld.status \in {"closed_won", "closed_lost", "archived"} THEN FALSE
  ELSE TRUE

\* task_place_voice_call up to provider.place_call
VoiceBegin(w, l) ==
  /\ wk[w].pc = "idle"
  /\ IF leads[l].status \in blocked_statuses
        \/ ~check_can_message(leads[l], consent[l], now)
       THEN /\ lastOp' = Op("voice", l, "blocked")
            /\ UNCHANGED wk
       ELSE /\ wk' = [wk EXCEPT ![w].pc = "voice_commit", ![w].lead = l,
                                  ![w].cnt = leads[l].total_call_attempts,
                                  ![w].orig[l] = leads[l].status]
            /\ lastOp' = Quiet
  /\ UNCHANGED <<leads, consent, attempts, lock, now, nbaVars, audit>>

\* task_place_voice_call: the new attempt, lead.total_call_attempts += 1,
\* scored -> contacting, db.commit()
VoiceCommit(w) ==
  /\ wk[w].pc = "voice_commit"
  /\ Len(attempts) < MaxAttempts
  /\ LeadRowFree(wk[w].lead, w)
  /\ leads' = [leads EXCEPT
                 ![wk[w].lead].total_call_attempts = wk[w].cnt + 1,
                 ![wk[w].lead].status =
                    IF wk[w].orig[wk[w].lead] = "scored" THEN "contacting" ELSE @]
  /\ attempts' = Append(attempts, NewAttempt(wk[w].lead, "voice", 1))
  /\ wk' = [wk EXCEPT ![w] = IdleWorker]
  /\ lastOp' = Quiet
  /\ UNCHANGED <<consent, lock, now, nbaVars, audit>>

\* ------------------------------------------------------ next best action
\* A dict is a function on its keys; a confidence is in tenths (10 is 1.0).
\* A prompt is the set of the words tested by the fallback that it contains.
Get(d, k, default) == IF k \in DOMAIN d THEN d[k] ELSE default

NBAAction == {"call", "sms", "email", "wait", "rep_handoff", "nurture", "close"}

\* the terminal statuses without archived
terminal_without_archived == {"closed_won", "closed_lost", "dnc", "disqualified"}

terminal == {"closed_won", "closed_lost", "dnc", "archived", "disqualified"}

protected == {"appointment_set", "qualified"}

active_statuses ==
  {"contacting", "contacted", "nurturing", "scored", "hot", "warm"}

\* the text of NBA_SYSTEM outside its memory placeholder: "SMS", "next",
\* "Next-Best-Action", "Respond", "rep_handoff"
NBA_SYSTEM == {"sms", "next", "action", "rep"}

\* what stored memory entries may contain: words that the fallback tests,
\* and a text that sanitize filters
MemoryWords == {"reply", "compliance", "system:"}

\* the texts _INJECTION_PATTERNS matches
INJECTION_PATTERNS == {"system:"}

\* sanitize(value): each match of _INJECTION_PATTERNS becomes "[filtered]"
sanitize(value) ==
  IF value \cap INJECTION_PATTERNS = {} THEN value
  ELSE (value \ INJECTION_PATTERNS) \cup {"filtered"}

\* "Organizational memory (use these insights ...)" and the entries, or ""
build_memory_context(mem) ==
  IF mem = {} THEN {} ELSE mem \cup {"memory", "insight"}

\* render(NBA_SYSTEM, memory_context=memory_ctx): the placeholder is replaced
\* by the sanitized value
render(template, memory_ctx) == template \cup sanitize(memory_ctx)

\* ClaudeClient._fallback
fallback(sp) ==
  IF "sms" \in sp /\ "reply" \in sp
    THEN [intent |-> "unknown", reply_text |-> "", actions |-> <<>>,
          confidence |-> 0, requires_human |-> TRUE]
  ELSE IF "qa" \in sp \/ "compliance" \in sp
    THEN [compliance_score |-> 70, flags |-> <<>>, checklist_pass |-> TRUE]
  ELSE IF "objection" \in sp
    THEN [tags |-> <<>>]
  ELSE IF "next" \in sp /\ "action" \in sp
    THEN [next_action |-> "wait", channel |-> None, schedule_time |-> None,
          reason_codes |-> <<"ai_unavailable">>, confidence |-> 0]
  ELSE [raw_text |-> "AI provider not configured", fallback |-> TRUE]

\* AIClient._fallback
ai_client_fallback(sp) ==
  IF "sms" \in sp /\ "reply" \in sp
    THEN [intent |-> "unknown", reply_text |-> "", actions |-> <<>>,
          confidence |-> 0, requires_human |-> TRUE]
  ELSE IF "qa" \in sp \/ "compliance" \in sp
    THEN [compliance_score |-> 70, flags |-> <<>>, checklist_pass |-> TRUE]
  ELSE IF "objection" \in sp
    THEN [tags |-> <<>>, confidence |-> 0, evidence_spans |-> <<>>]
  ELSE IF "next" \in sp /\ "action" \in sp
    THEN [next_action |-> "wait", channel |-> None, schedule_time |-> None,
          reason_codes |-> <<"ai_unavailable">>, confidence |-> 0]
  ELSE [raw_text |-> "AI provider not configured", fallback |-> TRUE]

\* what a request to the provider ends in: a JSON decision, a timeout, an
\* HTTP error status, or text that json.loads rejects
ProviderOutcomes == {"ok", "timeout", "http_error", "malformed"}

\* a decision the provider answers with
ProviderDecision ==
  [next_action |-> "call", channel |-> "voice", schedule_time |-> None,
   reason_codes |-> <<"high_score">>, confidence |-> 8]

\* chat of either client, given its fallback for sp and whether its key is
\* set: the dict it returns and the HTTP requests it makes
chat(enabled, fb, outcome) ==
  IF ~enabled THEN [result |-> fb, http |-> 0]
  ELSE CASE outcome = "ok" -> [result |-> ProviderDecision, http |-> 1]
         [] outcome = "malformed" ->
              [result |-> [raw_text |-> "text"], http |-> 1]
         [] OTHER -> [result |-> fb, http |-> 1]

Rule(action, reason, conf) ==
  [next_action |-> action, channel |-> None,
   reason_codes |-> <<reason>>, confidence |-> conf]

\* ai.tasks.run_nba(db, l)
run_nba(l, outcome) ==
  IF leads[l].status \in terminal
    THEN [result |-> Rule("close", "terminal_status", 10), http |-> 0]
  ELSE IF check_dnc(consent[l])
    THEN [result |-> Rule("close", "opted_out", 10), http |-> 0]
  ELSE IF leads[l].status \in protected
    THEN [result |-> Rule("rep_handoff", "protected_status", 9), http |-> 0]
  ELSE chat(ai.anthropic_api_key,
            fallback(render(NBA_SYSTEM, build_memory_context(ai.memory))),
            outcome)

\* an NBADecision row added now
NewDecision(l, action, reasons, conf, ttl) ==
  [lead |-> l, recommended_action |-> action, reason_codes |-> reasons,
   confidence |-> conf, created_at |-> clock, expires_at |-> clock + ttl]

\* action_map.get(.., NBAAction.wait)
action_map(a) == IF a \in NBAAction THEN a ELSE "wait"

\* the row built from a result dict, with its 24 hour expiry
DecisionFrom(l, r) ==
  NewDecision(l, action_map(Get(r, "next_action", "wait")),
              Get(r, "reason_codes", <<>>), Get(r, "confidence", 0),
              DecisionTtl)

\* the row task_recompute_nba and the nightly batch add for a result of
\* run_nba: none when the result has no next_action
SavedFrom(l, r) ==
  IF Get(r, "next_action", None) # None THEN <<DecisionFrom(l, r)>> ELSE <<>>

\* what an NBA task has done: the rows it committed and its HTTP requests
Done(rows, http) == [saved |-> rows, http |-> http]

\* the report of an NBA operation on lead l: the rows it committed, or
\* returned, and its HTTP requests
NbaOp(name, l, done) ==
  [op |-> name, arg |-> l, res |-> "done",
   saved |-> done.saved, http |-> done.http]

\* task_recompute_nba(l), the provider's request ending in outcome o
TaskRecomputeNba(l, o) ==
  /\ LET r == run_nba(l, o)
         rows == SavedFrom(l, r.result)
     IN /\ Len(nba) + Len(rows) <= MaxDecisions
        /\ nba' = nba \o rows
        /\ lastOp' = NbaOp("recompute_nba", l, Done(rows, r.http))
  /\ UNCHANGED <<leads, consent, attempts, lock, wk, now, ai, clock, audit>>

\* the row task_nba_decide(l) adds, and its HTTP requests
nba_decide(l, outcome) ==
  IF leads[l].status \in terminal
    THEN Done(<<NewDecision(l, "close", <<"terminal_status">>, 10,
                            TerminalTtl)>>, 0)
  ELSE IF leads[l].status \in protected
    THEN Done(<<NewDecision(l, "rep_handoff", <<"protected_status">>, 9,
                            DecisionTtl)>>, 0)
  ELSE IF check_dnc(consent[l])
    THEN Done(<<NewDecision(l, "close", <<"opted_out">>, 10, TerminalTtl)>>, 0)
  ELSE LET r == chat(ai.openai_api_key, ai_client_fallback(NBA_SYSTEM), outcome)
       IN Done(<<DecisionFrom(l, r.result)>>, r.http)

\* task_nba_decide(l), the provider's request ending in outcome o
TaskNbaDecide(l, o) ==
  /\ Len(nba) < MaxDecisions
  /\ nba' = nba \o nba_decide(l, o).saved
  /\ lastOp' = NbaOp("nba_decide", l, nba_decide(l, o))
  /\ UNCHANGED <<leads, consent, attempts, lock, wk, now, ai, clock, audit>>

\* leads the nightly batch selects: in an active status, with no decision
\* created in the last 24 hours
BatchCandidates ==
  {l \in Leads :
     /\ leads[l].status \in active_statuses
     /\ ~\E i \in 1..Len(nba) :
           nba[i].lead = l /\ nba[i].created_at >= clock - BatchCutoff}

BatchSelections ==
  IF Cardinality(BatchCandidates) <= BatchLimit THEN {BatchCandidates}
  ELSE {b \in SUBSET BatchCandidates : Cardinality(b) = BatchLimit}

\* the results of run_nba for the leads of batch b from lead l on, in order
RECURSIVE BatchRun(_, _, _)
BatchRun(b, outs, l) ==
  IF l > NumLeads THEN Done(<<>>, 0)
  ELSE LET rest == BatchRun(b, outs, l + 1)
       IN IF l \notin b THEN rest
          ELSE LET r == run_nba(l, outs[l])
               IN Done(SavedFrom(l, r.result) \o rest.saved, r.http + rest.http)

\* task_nightly_nba_batch
TaskNightlyNbaBatch ==
  /\ \E b \in BatchSelections, outs \in [Leads -> ProviderOutcomes] :
       LET run == BatchRun(b, outs, 1)
       IN /\ Len(nba) + Len(run.saved) <= MaxDecisions
          /\ nba' = nba \o run.saved
          /\ lastOp' = NbaOp("nightly_nba", 0, run)
  /\ UNCHANGED <<leads, consent, attempts, lock, wk, now, ai, clock, audit>>

\* GET /leads/{l}/nba: the row of l created last, if any
GetLeadNba(l) ==
  /\ LET mine == {i \in 1..Len(nba) : nba[i].lead = l}
         latest == CHOOSE i \in mine : \A j \in mine : j <= i
         rows == IF mine = {} THEN <<>> ELSE <<nba[latest]>>
     IN lastOp' = NbaOp("get_nba", l, Done(rows, 0))
  /\ UNCHANGED <<leads, consent, attempts, lock, wk, now, nbaVars, audit>>

\* ClockStep hours pass
Advance ==
  /\ clock + ClockStep <= MaxClock
  /\ clock' = clock + ClockStep
  /\ now' = [wd |-> (now.wd + (now.hr + ClockStep) \div 24) % 7,
             hr |-> (now.hr + ClockStep) % 24]
  /\ lastOp' = Quiet
  /\ UNCHANGED <<leads, consent, attempts, lock, wk, nba, ai, audit>>

\* ---------------------------------------------------------- specifications
\* Spec: the queue drain and single-attempt execution on NumWorkers workers,
\* with the API requests that create attempts and change a lead's status, on
\* fresh leads at one instant of the clock.
Init ==
  /\ leads = [l \in Leads |-> NewLead("hot")]
  /\ consent = [l \in Leads |-> <<>>]
  /\ attempts = <<>>
  /\ lock = {}
  /\ wk = [w \in Workers |-> IdleWorker]
  /\ now \in SampleInstants
  /\ lastOp = Quiet
  /\ audit = <<>>
  /\ NbaUnused

Next ==
  \/ Enqueue
  \/ CreateAppointment
  \/ UpdateLeadStatus
  \/ \E w \in Workers : DrainAcquire(w)
  \/ \E w \in Workers : DrainScan(w)
  \/ \E w \in Workers : LoadLead(w)
  \/ \E w \in Workers : Simulate(w)
  \/ \E w \in Workers : Commit(w)
  \/ \E w \in Workers : DrainRelease(w)
  \/ LeaseExpire
  \/ \E w \in Workers : \E a \in AttemptIds : ExecuteBegin(w, a)
  \/ \E w \in Workers : Crash(w)

Spec == Init /\ [][Next]_vars

\* SpecGate: enqueue_outreach on a lead in any status, with any counters up to
\* the bounds and any consent log up to MaxConsent records; the first lead
\* carries the drawn inputs, the others are fresh.
ConsentLogs == UNION {[1..n -> ConsentStatus] : n \in 0..MaxConsent}

LeadInputs ==
  [status : LeadStatus,
   total_call_attempts : 0..MaxCallsIn,
   total_sms_sent : 0..MaxSmsIn,
   total_emails_sent : 0..MaxEmailsIn,
   next_outreach_channel : {None}]

InitGate ==
  /\ \E ld \in LeadInputs, recs \in ConsentLogs :
       /\ leads = [[k \in Leads |-> NewLead("hot")] EXCEPT ![1] = ld]
       /\ consent = [[k \in Leads |-> <<>>] EXCEPT ![1] = recs]
  /\ attempts = <<>>
  /\ lock = {}
  /\ wk = [w \in Workers |-> IdleWorker]
  /\ now \in SampleInstants
  /\ lastOp = Quiet
  /\ audit = <<>>
  /\ NbaUnused

NextGate == Enqueue

SpecGate == InitGate /\ [][NextGate]_vars

\* SpecSelect: select_channel at every hour of the week, on any counters up
\* to the bounds.
SelectChannel ==
  /\ \E l \in Leads : lastOp' = Op("select", l, select_channel(leads[l], now))
  /\ UNCHANGED <<leads, consent, attempts, lock, wk, now, nbaVars, audit>>

InitSelect ==
  /\ \E l \in Leads, ld \in LeadInputs :
       /\ ld.status = "hot"
       /\ leads = [[k \in Leads |-> NewLead("hot")] EXCEPT ![l] = ld]
  /\ consent = [l \in Leads |-> <<>>]
  /\ attempts = <<>>
  /\ lock = {}
  /\ wk = [w \in Workers |-> IdleWorker]
  /\ now \in Instants
  /\ lastOp = Quiet
  /\ audit = <<>>
  /\ NbaUnused

NextSelect == SelectChannel

SpecSelect == InitSelect /\ [][NextSelect]_vars

\* SpecMap: the disposition mapping with every outcome of the voice stub, run
\* by one worker, while API requests put the lead in any status.
Solo == {CHOOSE w \in Workers : TRUE}

NextMap ==
  \/ Enqueue
  \/ CreateAppointment
  \/ UpdateLeadStatusAny
  \/ \E w \in Solo : DrainAcquire(w)
  \/ \E w \in Solo : DrainScan(w)
  \/ \E w \in Solo : LoadLead(w)
  \/ \E w \in Solo : SimulateAny(w)
  \/ \E w \in Solo : Commit(w)
  \/ \E w \in Solo : DrainRelease(w)
  \/ \E w \in Solo : \E a \in AttemptIds : ExecuteBegin(w, a)

SpecMap == Init /\ [][NextMap]_vars

\* SpecTasks: the operations that write a lead's counters, on NumWorkers
\* workers: the drain, single-attempt execution, task_send_sms and
\* task_place_voice_call.
InitTasks ==
  /\ leads \in [Leads -> {NewLead("hot"), NewLead("scored")}]
  /\ consent = [l \in Leads |-> <<>>]
  /\ attempts = <<>>
  /\ lock = {}
  /\ wk = [w \in Workers |-> IdleWorker]
  /\ now \in SampleInstants
  /\ lastOp = Quiet
  /\ audit = <<>>
  /\ NbaUnused

NextTasks ==
  \/ Enqueue
  \/ \E w \in Workers : DrainAcquire(w)
  \/ \E w \in Workers : DrainScan(w)
  \/ \E w \in Workers : LoadLead(w)
  \/ \E w \in Workers : Simulate(w)
  \/ \E w \in Workers : Commit(w)
  \/ \E w \in Workers : DrainRelease(w)
  \/ \E w \in Workers : \E a \in AttemptIds : ExecuteBegin(w, a)
  \/ \E w \in Workers : \E l \in Leads : SmsBegin(w, l)
  \/ \E w \in Workers : SmsCommit(w)
  \/ \E w \in Workers : \E l \in Leads : VoiceBegin(w, l)
  \/ \E w \in Workers : VoiceCommit(w)

SpecTasks == InitTasks /\ [][NextTasks]_vars

\* SpecEscalate: one lead followed through enqueue and drain by one worker,
\* the voice stub giving no_answer or voicemail, while the clock moves.
Tick ==
  /\ now' \in SampleInstants \ {now}
  /\ lastOp' = Quiet
  /\ UNCHANGED <<leads, consent, attempts, lock, wk, nbaVars, audit>>

EnqueueEscalate ==
  /\ \E l \in Leads : EnqueueOutreachUpTo(l, MaxEscalation)
  /\ audit' = EnqueuedAudit
  /\ UNCHANGED <<consent, lock, wk, now, nbaVars>>

NoContactOutcomes == {"no_answer", "voicemail"}

SimulateNoContact(w) == SimulateOutreach(w, NoContactOutcomes)

NextEscalate ==
  \/ EnqueueEscalate
  \/ Tick
  \/ \E w \in Solo : DrainAcquire(w)
  \/ \E w \in Solo : DrainScan(w)
  \/ \E w \in Solo : LoadLead(w)
  \/ \E w \in Solo : SimulateNoContact(w)
  \/ \E w \in Solo : Commit(w)
  \/ \E w \in Solo : DrainRelease(w)

SpecEscalate == Init /\ [][NextEscalate]_vars

\* SpecConsent: consent events recorded through the API on a lead in any
\* status, and enqueue_outreach on it.
InitConsent ==
  /\ \E st \in LeadStatus :
       leads = [[k \in Leads |-> NewLead("hot")] EXCEPT ![1] = NewLead(st)]
  /\ consent = [l \in Leads |-> <<>>]
  /\ attempts = <<>>
  /\ lock = {}
  /\ wk = [w \in Workers |-> IdleWorker]
  /\ now \in SampleInstants
  /\ lastOp = Quiet
  /\ audit = <<>>
  /\ NbaUnused

NextConsent ==
  \/ AddConsent
  \/ Enqueue

SpecConsent == InitConsent /\ [][NextConsent]_vars

\* SpecNba: the NBA tasks and the read of the latest decision, on a lead in
\* any status with or without an opt-out, under every provider configuration
\* and memory, while hours pass.
NbaConsentInputs == {<<>>, <<"opted_in">>, <<"opted_out">>}

InitNba ==
  /\ \E st \in LeadStatus, recs \in NbaConsentInputs :
       /\ leads = [[k \in Leads |-> NewLead("hot")] EXCEPT ![1] = NewLead(st)]
       /\ consent = [[k \in Leads |-> <<>>] EXCEPT ![1] = recs]
  /\ attempts = <<>>
  /\ lock = {}
  /\ wk = [w \in Workers |-> IdleWorker]
  /\ now = [wd |-> 1, hr |-> 15]
  /\ lastOp = Quiet
  /\ audit = <<>>
  /\ nba = <<>>
  /\ ai \in [anthropic_api_key : BOOLEAN, openai_api_key : BOOLEAN,
             memory : SUBSET MemoryWords]
  /\ clock = 0

NextNba ==
  \/ \E l \in Leads, o \in ProviderOutcomes : TaskNbaDecide(l, o)
  \/ \E l \in Leads, o \in ProviderOutcomes : TaskRecomputeNba(l, o)
  \/ TaskNightlyNbaBatch
  \/ \E l \in Leads : GetLeadNba(l)
  \/ Advance

SpecNba == InitNba /\ [][NextNba]_vars

\* SpecLease: the beat-scheduled drain on NumWorkers workers, with worker
\* crashes and the expiry of the lock's lease.  A crash is reported in lastOp.
WorkerLost(w) ==
  /\ wk[w].pc # "idle"
  /\ wk' = [wk EXCEPT ![w] = IdleWorker]
  /\ lastOp' = Op("crash", w, "lost")
  /\ UNCHANGED <<leads, consent, attempts, lock, now, nbaVars, audit>>

NextLease ==
  \/ Enqueue
  \/ \E w \in Workers : DrainAcquire(w)
  \/ \E w \in Workers : DrainScan(w)
  \/ \E w \in Workers : LoadLead(w)
  \/ \E w \in Workers : Simulate(w)
  \/ \E w \in Workers : Commit(w)
  \/ \E w \in Workers : DrainRelease(w)
  \/ LeaseExpire
  \/ \E w \in Workers : WorkerLost(w)

SpecLease == Init /\ [][NextLease]_vars

\* Scheduling: beat sends process_outreach_queue every 60 s and a worker
\* that has started a step finishes it; the key's timeout elapses; from some
\* time on no worker process is lost.
FairLease ==
  /\ \A w \in Workers :
       /\ WF_vars(DrainAcquire(w))
       /\ WF_vars(DrainScan(w))
       /\ WF_vars(LoadLead(w))
       /\ WF_vars(Simulate(w))
       /\ WF_vars(Commit(w))
       /\ WF_vars(DrainRelease(w))
  /\ WF_vars(LeaseExpire)
  /\ <>[][lastOp'.op # "crash"]_vars

SpecLeaseFair == SpecLease /\ FairLease

\* SpecRetry: the drain and execute_outreach on NumWorkers workers, with
\* runs that raise and are retried.
NextRetry ==
  \/ Enqueue
  \/ \E w \in Workers : DrainAcquire(w)
  \/ \E w \in Workers : DrainScan(w)
  \/ \E w \in Workers : LoadLead(w)
  \/ \E w \in Workers : Simulate(w)
  \/ \E w \in Workers : Commit(w)
  \/ \E w \in Workers : DrainRelease(w)
  \/ \E w \in Workers : DrainRaise(w)
  \/ LeaseExpire
  \/ \E w \in Workers : \E a \in AttemptIds : ExecuteBegin(w, a)
  \/ \E w \in Workers : ExecuteRaise(w)
  \/ \E w \in Workers : ExecuteRetry(w)

SpecRetry == Init /\ [][NextRetry]_vars

\* SpecOptOut: inbound messages of a lead in any status, with or without a
\* configured provider, among API requests that add consent records, set
\* the lead's status and enqueue outreach.
InitOptOut ==
  /\ \E st \in LeadStatus :
       leads = [[k \in Leads |-> NewLead("hot")] EXCEPT ![1] = NewLead(st)]
  /\ consent = [l \in Leads |-> <<>>]
  /\ attempts = <<>>
  /\ lock = {}
  /\ wk = [w \in Workers |-> IdleWorker]
  /\ now \in SampleInstants
  /\ lastOp = Quiet
  /\ audit = <<>>
  /\ nba = <<>>
  /\ ai \in [anthropic_api_key : {FALSE}, openai_api_key : BOOLEAN,
             memory : {{}}]
  /\ clock = 0

NextOptOut ==
  \/ \E l \in Leads, body \in Bodies, act \in SmsActions :
       TaskProcessInboundSms(l, body, act)
  \/ AddConsent
  \/ UpdateLeadStatusAny
  \/ Enqueue

SpecOptOut == InitOptOut /\ [][NextOptOut]_vars

\* ================================================================ claims

\* the lead's log holds an opted_out record newer than any opted_in record
OptedOutNewest(recs) ==
  \E i \in 1..Len(recs) :
    /\ recs[i] = "opted_out"
    /\ \A j \in (i + 1)..Len(recs) : recs[j] # "opted_in"

ZeroCounters(ld) ==
  /\ ld.total_call_attempts = 0
  /\ ld.total_sms_sent = 0
  /\ ld.total_emails_sent = 0

\* C1: a lead whose consent log holds an opted_out record newer than any
\* opted_in record is denied by can_contact, whatever its status and its
\* counters are, and enqueue_outreach returns none for it.
C1_OptedOutDenied ==
  \A l \in Leads :
    OptedOutNewest(consent[l]) =>
      /\ ~can_contact(leads[l], consent[l]).allowed
      /\ (lastOp.op = "enqueue" /\ lastOp.arg = l => lastOp.res = None)

\* an otherwise contactable lead (hot, no attempts, calls open) that opted in
\* and later opted out has been refused by enqueue_outreach
C1_Witness ==
  \E l \in Leads :
    /\ consent[l] = <<"opted_in", "opted_out">>
    /\ leads[l].status = "hot" /\ ZeroCounters(leads[l])
    /\ is_within_call_window(now)
    /\ lastOp = Op("enqueue", l, None)

\* C2: when can_contact denies, or select_channel returns none, the call of
\* enqueue_outreach returns none and changes nothing: no attempt row is
\* added and no lead's status, next_outreach_channel or counter changes.
C2_DeniedEnqueueChangesNothing ==
  [][\A l \in Leads :
       (/\ lastOp'.op = "enqueue" /\ lastOp'.arg = l
        /\ \/ ~can_contact(leads[l], consent[l]).allowed
           \/ select_channel(leads[l], now) = None)
       => /\ lastOp'.res = None
          /\ attempts' = attempts
          /\ leads' = leads
          /\ consent' = consent]_vars

\* a hot lead the gate allows was deferred by enqueue_outreach because every
\* window is closed: it is still hot and there is no attempt row
C2_Witness ==
  \E l \in Leads :
    /\ lastOp = Op("enqueue", l, None)
    /\ attempts = <<>>
    /\ can_contact(leads[l], consent[l]).allowed
    /\ select_channel(leads[l], now) = None
    /\ leads[l].status = "hot"
    /\ leads[l].next_outreach_channel = None

\* C9: when can_contact allows and select_channel returns channel c, the
\* call of enqueue_outreach adds exactly one attempt, for that lead, with
\* channel c and no disposition, and sets the lead's status to contacting;
\* for a hot lead with no attempts inside the call window c is voice.
C9_EnqueueCreatesOnePendingAttempt ==
  [][\A l \in Leads :
       LET c == select_channel(leads[l], now)
       IN (/\ lastOp'.op = "enqueue" /\ lastOp'.arg = l
           /\ can_contact(leads[l], consent[l]).allowed
           /\ c # None)
          => /\ lastOp'.res = c
             /\ Len(attempts') = Len(attempts) + 1
             /\ SubSeq(attempts', 1, Len(attempts)) = attempts
             /\ attempts'[Len(attempts')].lead = l
             /\ attempts'[Len(attempts')].channel = c
             /\ attempts'[Len(attempts')].disposition = None
             /\ leads'[l].status = "contacting"
             /\ \A k \in Leads \ {l} : leads'[k] = leads[k]
             /\ (/\ leads[l].status = "hot"
                 /\ ZeroCounters(leads[l])
                 /\ is_within_call_window(now)) => c = "voice"]_vars

\* the first enqueue for a lead with no attempts, inside the call window,
\* left one pending voice attempt and the lead in contacting
C9_Witness ==
  \E l \in Leads :
    /\ lastOp = Op("enqueue", l, "voice")
    /\ is_within_call_window(now)
    /\ ZeroCounters(leads[l])
    /\ leads[l].status = "contacting"
    /\ Len(attempts) = 1
    /\ attempts[1].lead = l
    /\ attempts[1].channel = "voice"
    /\ attempts[1].disposition = None

\* C10: at every hour of the week select_channel returns none when all three
\* caps are reached, email when the call and SMS caps are reached and the
\* email cap is not, and never voice once the call cap is reached.
C10_ExhaustedCaps ==
  \A l \in Leads :
    (lastOp.op = "select" /\ lastOp.arg = l) =>
      LET ld == leads[l]
          calls == ld.total_call_attempts >= 3
          sms == ld.total_sms_sent >= 3
          emails == ld.total_emails_sent >= 5
      IN /\ (calls /\ sms /\ emails) => lastOp.res = None
         /\ (calls /\ sms /\ ~emails) => lastOp.res = "email"
         /\ calls => lastOp.res # "voice"

\* on a Sunday, with the call and SMS caps passed and one email left,
\* select_channel has returned email
C10_Witness ==
  \E l \in Leads :
    /\ lastOp = Op("select", l, "email")
    /\ now.wd = 6
    /\ leads[l].total_call_attempts > 3
    /\ leads[l].total_sms_sent = 3
    /\ leads[l].total_emails_sent = 4

\* workers that hold the session of a drain: scanning or executing attempts
InDrain == {w \in Workers : wk[w].pc \in {"drain_scan", "drain_sim"}}

\* C3: at most one worker at a time is scanning and executing pending
\* attempts in process_outreach_queue, with the lease expiry of the lock as
\* an event, and a worker that fails to acquire the lock touches no attempt.
C3_DrainMutualExclusion ==
  /\ Cardinality(InDrain) <= 1
  /\ \A w \in Workers :
       lastOp = Op("drain", w, "skipped") => wk[w] = IdleWorker

\* C4: each attempt has its disposition written at most once and increments
\* its lead's counter at most once, over all interleavings of
\* process_outreach_queue and execute_outreach runs.
C4_WrittenAndCountedOnce ==
  \A a \in AttemptIds : attempts[a].writes <= 1 /\ attempts[a].incs <= 1

\* C5: when _simulate_outreach handles an attempt of a lead whose status is
\* appointment_set, qualified or closed_won, the status it holds for the lead
\* is unchanged whatever the outcome, and the commit of a session that loaded
\* the lead in such a status does not change the lead's status.
C5_ProtectedStatusKept ==
  [][\A w \in Workers :
       /\ SimulateAny(w) =>
            \A l \in Leads :
              wk[w].cur[l] \in protected_statuses => wk'[w].cur[l] = wk[w].cur[l]
       /\ Commit(w) =>
            \A l \in Leads :
              wk[w].orig[l] \in protected_statuses
                => leads'[l].status = leads[l].status]_vars

\* a session has written wrong_number on a voice attempt of a lead that it
\* loaded in appointment_set and still holds in appointment_set
C5_Witness ==
  \E w \in Workers, a \in AttemptIds :
    /\ a \in DOMAIN wk[w].disp
    /\ attempts[a].channel = "voice"
    /\ wk[w].disp[a] = "wrong_number"
    /\ wk[w].orig[attempts[a].lead] = "appointment_set"
    /\ wk[w].cur[attempts[a].lead] = "appointment_set"

\* C6: the commit of a drain or execute session never replaces a protected
\* status that is committed on the lead at that moment.
C6_CommitKeepsProtectedStatus ==
  [][\A w \in Workers :
       Commit(w) =>
         \A l \in Leads :
           leads[l].status \in protected_statuses
             => leads'[l].status = leads[l].status]_vars

\* C7: execute_outreach on an attempt whose disposition is set returns
\* without changing the attempt, the leads or its session, and the drain's
\* scan selects no attempt whose disposition is set.
C7_ReExecutionIsNoOp ==
  [][\A w \in Workers :
       /\ \A a \in AttemptIds :
            (ExecuteBegin(w, a) /\ attempts[a].disposition # None)
              => /\ attempts' = attempts
                 /\ leads' = leads
                 /\ wk' = wk
                 /\ lastOp' = Op("execute", a, "already_processed")
       /\ DrainScan(w) =>
            \A a \in wk'[w].batch : attempts[a].disposition = None]_vars

\* execute_outreach has returned "already processed" for an attempt whose
\* disposition was written once and counted once
C7_Witness ==
  \E a \in AttemptIds :
    /\ lastOp = Op("execute", a, "already_processed")
    /\ attempts[a].disposition = "not_interested"
    /\ attempts[a].writes = 1
    /\ attempts[a].incs = 1
    /\ leads[attempts[a].lead].total_call_attempts = 1

\* committed increments made on behalf of lead l's attempts on channel ch
Issued(l, ch) ==
  Cardinality({<<a, k>> \in AttemptIds \X (1..(NumWorkers + 1)) :
                 /\ attempts[a].lead = l
                 /\ attempts[a].channel = ch
                 /\ k <= attempts[a].incs})

\* as Issued, in the next state
IssuedNext(l, ch) ==
  Cardinality({<<a, k>> \in (1..Len(attempts')) \X (1..(NumWorkers + 1)) :
                 /\ attempts'[a].lead = l
                 /\ attempts'[a].channel = ch
                 /\ k <= attempts'[a].incs})

\* C8: the committed counters of a lead never decrease and no increment is
\* lost: after every step each counter is the number of increments made.
C8_CountersMonotoneAndExact ==
  [][\A l \in Leads :
       /\ leads'[l].total_call_attempts >= leads[l].total_call_attempts
       /\ leads'[l].total_sms_sent >= leads[l].total_sms_sent
       /\ leads'[l].total_emails_sent >= leads[l].total_emails_sent
       /\ leads'[l].total_call_attempts = IssuedNext(l, "voice")
       /\ leads'[l].total_sms_sent = IssuedNext(l, "sms")
       /\ leads'[l].total_emails_sent = IssuedNext(l, "email")]_vars

\* a tier a lead can be sent on at instant t: under its cap and inside its
\* window; the email tier has no window
TierOpen(ld, t, ch) ==
  CASE ch = "voice" -> ld.total_call_attempts < 3 /\ is_within_call_window(t)
    [] ch = "sms" -> ld.total_sms_sent < 3 /\ is_within_sms_window(t)
    [] ch = "email" -> ld.total_emails_sent < 5

\* C11: when the first tier under its cap (voice, then SMS) has its window
\* closed, select_channel returns the first lower tier that is under its cap
\* and inside its window, and none only when there is no such tier.
C11_FallThroughToOpenTier ==
  \A l \in Leads :
    (lastOp.op = "select" /\ lastOp.arg = l) =>
      LET ld == leads[l]
          lower == IF TierOpen(ld, now, "sms") THEN "sms"
                   ELSE IF TierOpen(ld, now, "email") THEN "email"
                   ELSE None
      IN /\ (ld.total_call_attempts < 3 /\ ~is_within_call_window(now))
              => lastOp.res = lower
         /\ (/\ ld.total_call_attempts >= 3
             /\ ld.total_sms_sent < 3
             /\ ~is_within_sms_window(now))
              => lastOp.res = lower

\* weekday of instant t in Eastern local time at UTC-5 (0 = Monday)
et_weekday(t) == IF t.hr < 5 THEN (t.wd + 6) % 7 ELSE t.wd

\* C12: at an instant that falls on Sunday in Eastern local time (UTC-5)
\* select_channel returns no channel, whatever the hour and the counters.
C12_NoChannelOnEasternSunday ==
  \A l \in Leads :
    (lastOp.op = "select" /\ lastOp.arg = l /\ et_weekday(now) = 6)
      => lastOp.res = None

\* C14: consent is last-write-wins: for a lead whose newest consent record is
\* opted_in, with an older opted_out record, enqueue_outreach is not refused
\* on consent grounds: when its status is not blocked, a cap is left and
\* select_channel has a channel for it, the call returns that channel.
C14_LatestOptInAllowsContact ==
  \A l \in Leads :
    (/\ lastOp.op = "enqueue" /\ lastOp.arg = l
     /\ Len(consent[l]) >= 2
     /\ consent[l][Len(consent[l])] = "opted_in"
     /\ \E i \in 1..(Len(consent[l]) - 1) : consent[l][i] = "opted_out"
     /\ leads[l].status \notin blocked_statuses
     /\ ~AllExhausted(leads[l])
     /\ select_channel(leads[l], now) # None)
      => lastOp.res # None

\* lead l has exactly three attempts, all voice, all drained with no_answer
\* or voicemail, and is otherwise untouched and contactable
ThreeFailedCalls(l) ==
  LET mine == {a \in AttemptIds : attempts[a].lead = l}
  IN /\ Cardinality(mine) = 3
     /\ \A a \in mine : /\ attempts[a].channel = "voice"
                        /\ attempts[a].disposition \in NoContactOutcomes
     /\ leads[l].total_call_attempts = 3
     /\ leads[l].total_sms_sent = 0
     /\ leads[l].total_emails_sent = 0
     /\ can_contact(leads[l], consent[l]).allowed

\* C13: after three voice attempts of a lead were enqueued and drained with
\* no_answer or voicemail, an enqueue_outreach run inside the SMS window adds
\* one pending sms attempt for the lead, and no voice attempt.
C13_ThreeFailedCallsEscalateToSms ==
  [][\A l \in Leads :
       (/\ EnqueueOutreachUpTo(l, MaxEscalation)
        /\ ThreeFailedCalls(l)
        /\ is_within_sms_window(now))
         => /\ attempts' = Append(attempts, NewAttempt(l, "sms", 0))
            /\ lastOp' = Op("enqueue", l, "sms")]_vars

\* the fourth attempt of a lead, enqueued while calls and SMS are both open
\* after three unanswered calls were drained, is a pending sms attempt
C13_Witness ==
  \E l \in Leads :
    /\ lastOp = Op("enqueue", l, "sms")
    /\ is_within_call_window(now)
    /\ Len(attempts) = 4
    /\ \A a \in 1..3 : /\ attempts[a].lead = l
                       /\ attempts[a].channel = "voice"
                       /\ attempts[a].disposition \in NoContactOutcomes
    /\ attempts[4] = NewAttempt(l, "sms", 0)
    /\ leads[l].total_call_attempts = 3

\* the last step was an NBA computation for lead l by one of the two tasks
NbaComputed(l) ==
  lastOp.op \in {"nba_decide", "recompute_nba"} /\ lastOp.arg = l

\* the last NBA computation committed one row, with this action, confidence
\* and reason codes, and made no request to the provider
DecidedByRule(action, conf) ==
  /\ lastOp.http = 0
  /\ Len(lastOp.saved) = 1
  /\ lastOp.saved[1].recommended_action = action
  /\ lastOp.saved[1].confidence = conf

\* lead l passes the three deterministic checks and is put to the provider
ReachesProvider(l) ==
  /\ leads[l].status \notin terminal \cup protected
  /\ ~check_dnc(consent[l])

\* the decision row of the fallback, committed for lead l in this step
FallbackDecision(l) ==
  NewDecision(l, "wait", <<"ai_unavailable">>, 0, DecisionTtl)

\* the step is task_recompute_nba(l), or task_nba_decide(l), with the
\* provider's request ending in outcome o
Recomputes(l, o) == lastOp'.op = "recompute_nba" /\ TaskRecomputeNba(l, o)

Decides(l, o) == lastOp'.op = "nba_decide" /\ TaskNbaDecide(l, o)

\* C15: for a lead in closed_won, closed_lost, dnc, disqualified or archived
\* can_contact denies, and run_nba (through task_recompute_nba) and
\* task_nba_decide give close with confidence 1.0 without a provider request.
C15_TerminalLeadsAreClosed ==
  \A l \in Leads :
    leads[l].status \in blocked_statuses =>
      /\ ~can_contact(leads[l], consent[l]).allowed
      /\ NbaComputed(l) => DecidedByRule("close", 10)

\* an archived lead without opt-out, with the provider configured, has been
\* decided by task_recompute_nba: close, 1.0, terminal_status, no request
C15_Witness ==
  \E l \in Leads :
    /\ leads[l].status = "archived"
    /\ consent[l] = <<>>
    /\ ai.anthropic_api_key
    /\ lastOp.op = "recompute_nba" /\ lastOp.arg = l
    /\ lastOp.http = 0
    /\ Len(lastOp.saved) = 1
    /\ lastOp.saved[1].recommended_action = "close"
    /\ lastOp.saved[1].reason_codes = <<"terminal_status">>
    /\ lastOp.saved[1].confidence = 10

\* C16: every lead in appointment_set or qualified gets rep_handoff with
\* confidence 0.9 and no provider request from both run_nba and
\* task_nba_decide, also when it has an opted_out consent record.
C16_ProtectedBeforeOptOut ==
  \A l \in Leads :
    (leads[l].status \in protected /\ NbaComputed(l))
      => DecidedByRule("rep_handoff", 9)

\* C17: with the provider of the task not configured, an NBA computation
\* that reaches the provider step commits wait, confidence 0.0, reason
\* ai_unavailable, and makes no request, whatever the stored memory is.
C17_DisabledProviderFallsBack ==
  [][\A l \in Leads, o \in ProviderOutcomes :
       /\ (Recomputes(l, o) /\ ReachesProvider(l) /\ ~ai.anthropic_api_key)
            => /\ nba' = Append(nba, FallbackDecision(l))
               /\ lastOp'.http = 0
       /\ (Decides(l, o) /\ ReachesProvider(l) /\ ~ai.openai_api_key)
            => /\ nba' = Append(nba, FallbackDecision(l))
               /\ lastOp'.http = 0]_vars

\* C18: when the provider is not configured, or its request times out, gets
\* an HTTP error or is answered by text that is not JSON, the NBA computation
\* commits the same decision: wait, confidence 0.0, reason ai_unavailable.
C18_EveryFailureFallsBack ==
  [][\A l \in Leads, o \in ProviderOutcomes :
       /\ (Recomputes(l, o) /\ ReachesProvider(l)
             /\ (~ai.anthropic_api_key \/ o # "ok"))
            => nba' = Append(nba, FallbackDecision(l))
       /\ (Decides(l, o) /\ ReachesProvider(l)
             /\ (~ai.openai_api_key \/ o # "ok"))
            => nba' = Append(nba, FallbackDecision(l))]_vars

\* C19: every NBADecision row committed by task_nba_decide,
\* task_recompute_nba or the nightly batch expires 24 hours after its
\* creation, and no step changes a row that exists.
C19_DecisionsExpireAfterADay ==
  [][/\ \A i \in 1..Len(nba) : i <= Len(nba') /\ nba'[i] = nba[i]
     /\ \A i \in 1..Len(nba') :
          nba'[i].expires_at = nba'[i].created_at + 24]_vars

\* the row of lead l created last
Latest(l) ==
  LET mine == {i \in 1..Len(nba) : nba[i].lead = l}
  IN IF mine = {} THEN <<>>
     ELSE <<nba[CHOOSE i \in mine : \A j \in mine : j <= i]>>

\* C20: a read of a lead's NBA decision never returns a decision whose
\* expires_at has passed, and after a run of the nightly batch no lead in an
\* active status is left with an expired latest decision.
C20_ExpiredDecisionsAreNotServed ==
  /\ \A l \in Leads :
       (lastOp.op = "get_nba" /\ lastOp.arg = l /\ lastOp.saved # <<>>)
         => lastOp.saved[1].expires_at >= clock
  /\ lastOp.op = "nightly_nba" =>
       \A l \in Leads :
         (leads[l].status \in active_statuses /\ Latest(l) # <<>>)
           => Latest(l)[1].expires_at >= clock

\* worker w is not running and the lock key still holds its token
Orphaned(w) == lock = {w} /\ wk[w].pc = "idle"

\* C21: when a worker is lost while it holds the drain lock, the lock is
\* eventually free again, and every pending attempt eventually has a
\* disposition.
C21_CrashedDrainRecovers ==
  /\ \A w \in Workers : Orphaned(w) ~> (lock # {w})
  /\ \A a \in 1..MaxAttempts :
       (a \in AttemptIds /\ attempts[a].disposition = None)
         ~> (a \in AttemptIds /\ attempts[a].disposition # None)

\* a worker was lost holding the lock, with an attempt still pending
C21_Witness ==
  \E w \in Workers :
    /\ lastOp = Op("crash", w, "lost")
    /\ Orphaned(w)
    /\ Pending # {}

\* C22: when execute_outreach has raised with its retries used up, the
\* attempt it was given has disposition failed.
C22_ExhaustedRetriesMarkFailed ==
  \A a \in AttemptIds :
    lastOp = Op("execute", a, "retries_exhausted")
      => attempts[a].disposition = "failed"

\* the number of AuditLog rows
AuditRows(au) ==
  LET RECURSIVE Sum(_)
      Sum(ks) == IF ks = {} THEN 0
                 ELSE LET k == CHOOSE x \in ks : TRUE
                      IN au[k] + Sum(ks \ {k})
  IN Sum(DOMAIN au)

\* C23: a call of enqueue_outreach that is denied commits one AuditLog row,
\* and so does every commit by enqueue_outreach or the executor that changes
\* a lead's status.
C23_DenyAndStatusChangeAudited ==
  [][/\ (\E l \in Leads : /\ lastOp' = Op("enqueue", l, None)
                          /\ ~can_contact(leads[l], consent[l]).allowed)
          => AuditRows(audit') = AuditRows(audit) + 1
     /\ (\E l \in Leads : leads'[l].status # leads[l].status)
          => AuditRows(audit') > AuditRows(audit)]_vars

\* C24: the executor carries out no attempt of a lead that, when the attempt
\* is handled, is in a terminal status or has an opted_out consent record.
C24_DrainVetsLeadAtExecution ==
  [][\A w \in Workers, a \in AttemptIds :
       (a \in DOMAIN wk'[w].disp /\ a \notin DOMAIN wk[w].disp)
         => /\ leads[attempts[a].lead].status \notin blocked_statuses
            /\ ~check_dnc(consent[attempts[a].lead])]_vars

\* the step is a run of process_outreach_queue by w ending in an exception
RaisedDrain(w) ==
  /\ wk[w].pc \in {"drain_scan", "drain_sim"}
  /\ wk'[w].pc = "idle"
  /\ lastOp' = Op("drain", w, "raised")

\* the committed rows say that every attempt with a disposition was counted
\* and that each counter holds exactly the increments made for attempts
CountedWithDisposition ==
  /\ \A a \in AttemptIds :
       (attempts[a].disposition # None) <=> (attempts[a].incs >= 1)
  /\ \A l \in Leads :
       /\ leads[l].total_call_attempts = Issued(l, "voice")
       /\ leads[l].total_sms_sent = Issued(l, "sms")
       /\ leads[l].total_emails_sent = Issued(l, "email")

C26_CapsHold ==
  \A l \in Leads :
    /\ leads[l].total_call_attempts <= MAX_CALL_ATTEMPTS
    /\ leads[l].total_sms_sent <= MAX_SMS_ATTEMPTS
    /\ leads[l].total_emails_sent <= MAX_EMAIL_ATTEMPTS

\* attempt a was recorded by task_send_sms or task_place_voice_call: it was
\* created with its increment made, so it holds one increment more than
\* handlings by the executor
RecordedByTask(a) == attempts[a].incs = attempts[a].writes + 1

\* C27: an attempt recorded by task_send_sms or task_place_voice_call is
\* never handled by the executor: no disposition is written for it and the
\* lead's counter holds one increment for it.
C27_TaskAttemptsNotExecutedAgain ==
  \A a \in AttemptIds :
    RecordedByTask(a) =>
      /\ attempts[a].disposition = None
      /\ attempts[a].writes = 0
      /\ attempts[a].incs = 1

\* instant t is inside the call hours in Eastern local time (UTC-5): Monday
\* to Friday call_start_hour to call_end_hour, Saturday 10 to 17
InCallHours(t) ==
  IF et_weekday(t) = 6 THEN FALSE
  ELSE IF et_weekday(t) = 5 THEN 10 <= et_hour(t) /\ et_hour(t) < 17
  ELSE call_start_hour <= et_hour(t) /\ et_hour(t) < call_end_hour

\* C28: task_place_voice_call goes on to place a call only inside the call
\* hours and for a lead that is not opted out and not in a terminal status;
\* when it is blocked it changes no lead and records no attempt.
C28_VoiceCallOnlyInCallHours ==
  [][\A w \in Workers, l \in Leads :
       /\ (wk[w].pc = "idle" /\ wk'[w].pc = "voice_commit" /\ wk'[w].lead = l)
            => /\ InCallHours(now)
               /\ leads[l].status \notin blocked_statuses
               /\ ~check_dnc(consent[l])
       /\ lastOp' = Op("voice", l, "blocked")
            => leads' = leads /\ attempts' = attempts]_vars

\* task_process_inbound_sms has handled an opt-out message of lead l
OptOutProcessed(l) == <<"consent.opt_out", l>> \in DOMAIN audit

\* C29: task_process_inbound_sms on a message detected as opt-out appends an
\* opted_out consent record, sets status dnc and writes one audit record,
\* without calling the provider; from then on every enqueue_outreach for the
\* lead returns none, whatever status changes and consent records follow.
C29_OptOutIsPermanent ==
  /\ [][\A l \in Leads :
          (lastOp'.op = "inbound_sms" /\ lastOp'.arg = l
             /\ lastOp'.res = "opt_out")
            => /\ lastOp'.http = 0
               /\ consent'[l] = Append(consent[l], "opted_out")
               /\ leads'[l].status = "dnc"
               /\ audit' = Audited(audit, "consent.opt_out", l)]_vars
  /\ [](\A l \in Leads :
          (OptOutProcessed(l) /\ lastOp.op = "enqueue" /\ lastOp.arg = l)
            => lastOp.res = None)

\* after an opt-out message was processed the lead was set to hot by hand
\* and got an opted_in record; enqueue_outreach has returned none
C29_Witness ==
  \E l \in Leads :
    /\ OptOutProcessed(l)
    /\ consent[l] = <<"opted_out", "opted_in">>
    /\ leads[l].status = "hot"
    /\ is_within_call_window(now)
    /\ lastOp = Op("enqueue", l, None)

\* C30: a call of enqueue_outreach for a lead in appointment_set or qualified
\* leaves the lead's status as it is.
C30_EnqueueKeepsProtectedStatus ==
  [][\A l \in Leads :
       (lastOp'.op = "enqueue" /\ lastOp'.arg = l
          /\ leads[l].status \in {"appointment_set", "qualified"})
         => leads'[l].status = leads[l].status]_vars

====
